---- MODULE Spec2Model ----
(***************************************************************************)
(* Firewatch-Cloud: the ingestion / enrichment / deduplication pipeline.   *)
(*                                                                         *)
(*   Processor  src/lambda/process_fires.py     (SQS -> geocode -> table)  *)
(*   Notifier   src/lambda/stream_processor.py  (table stream -> SNS)      *)
(*                                                                         *)
(* Python dicts are records whose DOMAIN is the set of keys present.       *)
(* Strings that the code concatenates (coordinates, acquisition date and   *)
(* time, the fire_id) are sequences of one-character strings, so that      *)
(* f-string formatting is concatenation and two keys are equal exactly     *)
(* when the Python strings are.                                            *)
(***************************************************************************)
EXTENDS Integers, Sequences, FiniteSets, TLC

VARIABLES
    now,              \* wall clock, whole seconds (datetime.now())
    chunk,            \* the detections of the message body under study
    table,            \* the DynamoDB table: a set of items
    stream,           \* the table's change feed: sequence of stream records
    pc,               \* Processor: "idle" or "records" (inside lambda_handler)
    event,            \* Processor: the SQS event of the invocation
    msgIdx,           \* Processor: records of the event read so far
    fires,            \* Processor: detections of the current message not yet read
    total_processed,  \* Processor: lambda_handler local
    total_stored,     \* Processor: lambda_handler local
    errors,           \* Processor: lambda_handler local
    result,           \* Processor: what the last invocation returned
    invocations,      \* Processor: invocations started so far
    last,             \* Processor: what the last process_fire call did
    passClean,        \* history: no record of the current message raised so far
    snap,             \* history: table after the first error-free pass over chunk
    streamPos,        \* Notifier: stream records already delivered and checkpointed
    published,        \* alert sink: notifications accepted by sns.publish
    nresult,          \* Notifier: outcome of the last invocation
    derived,          \* fire_id derivations made so far: detection, second, key
    fetcher,          \* Fetcher: the state of fetch_fires.lambda_handler
    parser,           \* Fetcher: a feed body and what parse_csv_data made of it
    workers,          \* two Processor workers writing at the same time
    cache,            \* a Processor worker's _api_key_cache and its history
    sqs               \* the work queue, its dead-letter queue and its consumer

vars == <<now, chunk, table, stream, pc, event, msgIdx, fires,
          total_processed, total_stored, errors, result, invocations, last,
          passClean, snap, streamPos, published, nresult,
          derived, fetcher, parser, workers, cache, sqs>>

----------------------------------------------------------------------------
(* Bounds of the model *)

MaxTime == 1
MaxInvocations == 2
MaxStream == 3

(* Program constants *)

ErrorDetailCap == 10
SqsBatchSize == 10
StatusOk == 200
StatusPartial == 207
StatusError == 500

----------------------------------------------------------------------------
(* Strings *)

Digits == <<"0", "1", "2", "3", "4", "5", "6", "7", "8", "9">>

RECURSIVE IntStr(_)
IntStr(n) ==
    IF n < 10 THEN <<Digits[n + 1]>>
    ELSE IntStr(n \div 10) \o <<Digits[(n % 10) + 1]>>

Unknown == "Unknown"

(* dict.get(key, default) *)
DictGet(d, k, default) == IF k \in DOMAIN d THEN d[k] ELSE default

----------------------------------------------------------------------------
(* Inputs: the detections a message body may carry *)

Lat1 == <<"1", ".", "5">>
Lon1 == <<"2", ".", "5">>
Date1 == <<"d">>
Time1 == <<"t">>
Empty == <<>>

\* a detection with acquisition date and time
FA == [latitude |-> Lat1, longitude |-> Lon1, frp |-> 5,
       acq_date |-> Date1, acq_time |-> Time1]
\* the same detection reported with another measurement
FB == [latitude |-> Lat1, longitude |-> Lon1, frp |-> 9,
       acq_date |-> Date1, acq_time |-> Time1]
\* a detection whose acquisition date and time are empty
FC == [latitude |-> Lat1, longitude |-> Lon1, frp |-> 5,
       acq_date |-> Empty, acq_time |-> Empty]
\* a detection without a longitude
FD == [latitude |-> Lat1, frp |-> 5, acq_date |-> Date1, acq_time |-> Time1]
\* the message bodies studied: one detection; one without acquisition time;
\* one detection reported twice with different measurements; both key
\* policies together; a detection that is skipped before one that is not;
\* the same detection without acquisition time twice
Chunks == {<<FA>>, <<FC>>, <<FA, FB>>, <<FA, FC>>, <<FD, FA>>, <<FC, FC>>}

\* an SQS record whose body is the JSON the Fetcher sent
MsgChunk(c) == [messageId |-> "m-chunk", parses |-> TRUE,
                body |-> [fires |-> c, batch_id |-> "batch_0"]]
\* an SQS record whose body json.loads rejects
MsgGarbage == [messageId |-> "m-garbage", parses |-> FALSE,
               body |-> [batch_id |-> "none"]]

\* the deliveries studied: the chunk alone, a body that does not parse alone,
\* the chunk twice in one delivery, and the chunk before and after a body
\* that does not parse
Events(c) == {<<MsgChunk(c)>>, <<MsgGarbage>>, <<MsgChunk(c), MsgChunk(c)>>,
              <<MsgGarbage, MsgChunk(c)>>, <<MsgChunk(c), MsgGarbage>>}

----------------------------------------------------------------------------
(* Geocoding: get_location_from_coordinates *)

\* a location descriptor of the geocode service; it names no city
Located == [locality |-> "Butte", countryName |-> "USA",
            principalSubdivision |-> "California"]

\* what urlopen + json.loads can produce: an exception (timeout, HTTP error
\* status, undecodable or unparsable body), a JSON object, or JSON that is
\* not an object
GeoResponses == {[kind |-> "error"],
                 [kind |-> "object", data |-> Located],
                 [kind |-> "other"]}

UnknownLocation == [city |-> Unknown, locality |-> Unknown,
                    countryName |-> Unknown, principalSubdivision |-> Unknown]

\* a lookup that lets the exception of urlopen escape
get_location_reraise(resp) ==
    IF resp.kind = "object" THEN [isDict |-> TRUE, data |-> resp.data]
    ELSE [isDict |-> FALSE, data |-> UnknownLocation]

\* the value get_location_from_coordinates returns
get_location_from_coordinates(resp) ==
    IF resp.kind = "error" THEN [isDict |-> TRUE, data |-> UnknownLocation]
    ELSE IF resp.kind = "object" THEN [isDict |-> TRUE, data |-> resp.data]
    ELSE [isDict |-> FALSE, data |-> UnknownLocation]

----------------------------------------------------------------------------
(* store_fire_data *)

\* the key of lambda_function.py: coordinates and ingest second, always
FireId_ingest(fire, timestamp) ==
    fire.latitude \o <<"_">> \o fire.longitude \o <<"_">> \o IntStr(timestamp)

FireId(fire, timestamp) ==
    LET acq_datetime == DictGet(fire, "acq_date", Empty) \o <<"_">>
                        \o DictGet(fire, "acq_time", Empty)
    IN  IF acq_datetime = <<"_">>
        THEN fire.latitude \o <<"_">> \o fire.longitude \o <<"_">> \o IntStr(timestamp)
        ELSE fire.latitude \o <<"_">> \o fire.longitude \o <<"_">> \o acq_datetime

BuildItem(fire, timestamp) ==
    [fire_id |-> FireId(fire, timestamp),
     timestamp |-> timestamp,
     latitude |-> fire.latitude,
     longitude |-> fire.longitude,
     frp |-> IF fire.frp # 0 THEN fire.frp ELSE 0,
     acq_date |-> DictGet(fire, "acq_date", Empty),
     acq_time |-> DictGet(fire, "acq_time", Empty),
     location_city |-> DictGet(fire, "location_city", Unknown),
     location_locality |-> DictGet(fire, "location_locality", Unknown),
     location_state |-> DictGet(fire, "location_state", Unknown),
     location_country |-> DictGet(fire, "location_country", Unknown),
     created_at |-> timestamp]

\* a put without the condition
no_condition(tbl, fire_id) == TRUE

\* ConditionExpression='attribute_not_exists(fire_id)'
attribute_not_exists(tbl, fire_id) == \A r \in tbl : r.fire_id # fire_id

\* a put that replaces the item of the same key
put_item_overwrite(tbl, item) ==
    [created |-> attribute_not_exists(tbl, item.fire_id),
     table |-> {r \in tbl : r.fire_id # item.fire_id} \cup {item}]

\* table.put_item under that condition: the item is created, or the
\* conditional check fails and the table is left alone
put_item(tbl, item) ==
    IF attribute_not_exists(tbl, item.fire_id)
    THEN [created |-> TRUE, table |-> tbl \cup {item}]
    ELSE [created |-> FALSE, table |-> tbl]

\* storeUp = FALSE: the put fails with an error other than the conditional check
store_fire_data(fire, timestamp, tbl, storeUp) ==
    LET item == BuildItem(fire, timestamp)
        put == put_item(tbl, item)
    IN  IF ~storeUp
        THEN [raised |-> TRUE, created |-> FALSE, table |-> tbl, item |-> item]
        ELSE [raised |-> FALSE, created |-> put.created, table |-> put.table,
              item |-> item]

----------------------------------------------------------------------------
(* process_fire *)

FireRecord(fire, location_data) ==
    [latitude |-> fire.latitude,
     longitude |-> fire.longitude,
     frp |-> DictGet(fire, "frp", 0),
     acq_date |-> DictGet(fire, "acq_date", Empty),
     acq_time |-> DictGet(fire, "acq_time", Empty),
     location_city |-> DictGet(location_data, "city", Unknown),
     location_locality |-> DictGet(location_data, "locality", Unknown),
     location_country |-> DictGet(location_data, "countryName", Unknown),
     location_state |-> DictGet(location_data, "principalSubdivision", Unknown)]

NoItem == [fire_id |-> Empty]

\* returns: raised (an exception left process_fire), success (its return
\* value), and what it did to the table
process_fire(fire, resp, timestamp, tbl, storeUp) ==
    IF "latitude" \notin DOMAIN fire \/ "longitude" \notin DOMAIN fire
    THEN [raised |-> FALSE, success |-> FALSE, what |-> "skipped",
          geocoded |-> FALSE, created |-> FALSE, table |-> tbl, item |-> NoItem]
    ELSE LET loc == get_location_from_coordinates(resp)
         IN  IF ~loc.isDict
             THEN [raised |-> TRUE, success |-> FALSE, what |-> "lookup_shape",
                   geocoded |-> TRUE, created |-> FALSE, table |-> tbl,
                   item |-> NoItem]
             ELSE LET st == store_fire_data(FireRecord(fire, loc.data),
                                            timestamp, tbl, storeUp)
                  IN  IF st.raised
                      THEN [raised |-> TRUE, success |-> FALSE,
                            what |-> "store_error", geocoded |-> TRUE,
                            created |-> FALSE, table |-> tbl, item |-> st.item]
                      ELSE [raised |-> FALSE, success |-> TRUE,
                            what |-> IF st.created THEN "stored" ELSE "duplicate",
                            geocoded |-> TRUE, created |-> st.created,
                            table |-> st.table, item |-> st.item]

----------------------------------------------------------------------------
(* The Processor's lambda_handler, one step per loop iteration *)

NoResult == [statusCode |-> 0, processed |-> 0, stored |-> 0, errors |-> 0,
             error_details |-> <<>>]
NoLast == [what |-> "none", fire |-> FD, item |-> NoItem, resp |-> "none",
           recorded |-> 0]
NoSnap == [taken |-> FALSE, table |-> {}]

Min(a, b) == IF a < b THEN a ELSE b

\* errors[-10:]
ErrorDetails_last(errs) ==
    SubSeq(errs, Len(errs) - Min(ErrorDetailCap, Len(errs)) + 1, Len(errs))

\* errors[:10]
ErrorDetails(errs) == SubSeq(errs, 1, Min(ErrorDetailCap, Len(errs)))

\* the dict lambda_handler returns
Summary(processed, stored, errs) ==
    [statusCode |-> IF errs = <<>> THEN StatusOk ELSE StatusPartial,
     processed |-> processed,
     stored |-> stored,
     errors |-> Len(errs),
     error_details |-> ErrorDetails(errs)]

\* counters that take a failed detection for a stored one
Tally_countFailed(r, fire, processed, stored, errs) ==
    IF r.raised
    THEN [processed |-> processed, stored |-> stored + 1,
          errors |-> Append(errs, [fire |-> fire, error |-> r.what])]
    ELSE [processed |-> processed + 1,
          stored |-> IF r.success THEN stored + 1 ELSE stored,
          errors |-> errs]

\* counters that take every detection that did not fail for a stored one
Tally_noSuccessTest(r, fire, processed, stored, errs) ==
    IF r.raised
    THEN [processed |-> processed, stored |-> stored,
          errors |-> Append(errs, [fire |-> fire, error |-> r.what])]
    ELSE [processed |-> processed + 1, stored |-> stored + 1, errors |-> errs]

\* the try/except around process_fire: the counters after one detection
Tally(r, fire, processed, stored, errs) ==
    IF r.raised
    THEN [processed |-> processed, stored |-> stored,
          errors |-> Append(errs, [fire |-> fire, error |-> r.what])]
    ELSE [processed |-> processed + 1,
          stored |-> IF r.success THEN stored + 1 ELSE stored,
          errors |-> errs]

\* an inner loop that gives the message up at the first exception
RemainingAfter_abort(fs, r) == IF r.raised THEN <<>> ELSE Tail(fs)

\* the detections the inner loop still visits after one detection (continue)
RemainingAfter(fs, r) == Tail(fs)

\* the change feed of the table: one INSERT record per item created
StreamRecords(created, item) ==
    IF created THEN <<[eventName |-> "INSERT", image |-> item]>> ELSE <<>>

NotifierVars == <<streamPos, published, nresult>>

\* the state of the other components
AuxVars == <<derived, fetcher, parser, workers, cache, sqs>>

\* an SQS delivery of one of the events evs starts an invocation
ProcStart(evs) ==
    /\ pc = "idle"
    /\ invocations < MaxInvocations
    /\ \E ev \in evs : event' = ev
    /\ msgIdx' = 0
    /\ pc' = "records"
    /\ invocations' = invocations + 1
    /\ fires' = <<>>
    /\ total_processed' = 0
    /\ total_stored' = 0
    /\ errors' = <<>>
    /\ result' = NoResult
    /\ last' = NoLast
    /\ UNCHANGED <<now, chunk, table, stream, passClean, snap, NotifierVars, AuxVars>>

ProcInvoke == ProcStart(Events(chunk))

\* the full deliveries (batch_size records) in which at most one record
\* carries the chunk and the others do not parse
BatchEvents(c) ==
    {[i \in 1..SqsBatchSize |-> IF i = p THEN MsgChunk(c) ELSE MsgGarbage] :
        p \in 0..SqsBatchSize}

ProcInvokeBatch == ProcStart(BatchEvents(chunk))

\* for record in event['Records']: parse the body
ProcMessage ==
    /\ pc = "records"
    /\ fires = <<>>
    /\ msgIdx < Len(event)
    /\ LET record == event[msgIdx + 1]
       IN  IF record.parses
           THEN /\ fires' = DictGet(record.body, "fires", <<>>)
                /\ errors' = errors
                /\ passClean' = TRUE
           ELSE /\ fires' = <<>>
                /\ errors' = Append(errors, [record |-> record.messageId,
                                             error |-> "body"])
                /\ passClean' = passClean
    /\ msgIdx' = msgIdx + 1
    /\ UNCHANGED <<now, chunk, table, stream, pc, event, total_processed,
                   total_stored, result, invocations, last, snap, NotifierVars, AuxVars>>

\* for fire in fires: process_fire(fire) and the bookkeeping around it
ProcFire ==
    /\ pc = "records"
    /\ fires # <<>>
    /\ \E resp \in GeoResponses, storeUp \in BOOLEAN :
         LET fire == Head(fires)
             r == process_fire(fire, resp, now, table, storeUp)
             t == Tally(r, fire, total_processed, total_stored, errors)
             rest == RemainingAfter(fires, r)
             clean == passClean /\ ~r.raised
         IN  /\ table' = r.table
             /\ stream' = stream \o StreamRecords(r.created, r.item)
             /\ total_processed' = t.processed
             /\ total_stored' = t.stored
             /\ errors' = t.errors
             /\ fires' = rest
             /\ last' = [what |-> r.what, fire |-> fire, item |-> r.item,
                         resp |-> IF r.geocoded THEN resp.kind ELSE "none",
                         recorded |-> Len(t.errors) - Len(errors)]
             /\ passClean' = clean
             /\ snap' = IF rest = <<>> /\ clean /\ ~snap.taken
                        THEN [taken |-> TRUE, table |-> r.table]
                        ELSE snap
    /\ UNCHANGED <<now, chunk, pc, event, msgIdx, result, invocations,
                   NotifierVars, AuxVars>>

\* return the summary
ProcReturn ==
    /\ pc = "records"
    /\ fires = <<>>
    /\ msgIdx = Len(event)
    /\ result' = Summary(total_processed, total_stored, errors)
    /\ pc' = "idle"
    /\ UNCHANGED <<now, chunk, table, stream, event, msgIdx, fires,
                   total_processed, total_stored, errors, invocations, last,
                   passClean, snap, NotifierVars, AuxVars>>

\* the wall clock advances
Tick ==
    /\ now < MaxTime
    /\ now' = now + 1
    /\ UNCHANGED <<chunk, table, stream, pc, event, msgIdx, fires,
                   total_processed, total_stored, errors, result, invocations,
                   last, passClean, snap, NotifierVars, AuxVars>>

----------------------------------------------------------------------------
(* The Notifier: stream_processor.lambda_handler *)

parse_dynamodb_item(image) ==
    [fire_id |-> DictGet(image, "fire_id", Empty),
     latitude |-> DictGet(image, "latitude", Empty),
     longitude |-> DictGet(image, "longitude", Empty),
     frp |-> DictGet(image, "frp", 0),
     location_city |-> DictGet(image, "location_city", Unknown),
     location_state |-> DictGet(image, "location_state", Unknown),
     location_country |-> DictGet(image, "location_country", Unknown),
     acq_date |-> DictGet(image, "acq_date", Empty),
     acq_time |-> DictGet(image, "acq_time", Empty)]

\* a test that takes every record for the kind asked for
IsKind_any(record, name) == TRUE

\* event_name == 'INSERT' and the two elif
IsKind(record, name) == record.eventName = name

RECURSIVE SelectEvents(_, _)
SelectEvents(records, name) ==
    IF records = <<>> THEN <<>>
    ELSE LET rest == SelectEvents(Tail(records), name)
         IN  IF IsKind(Head(records), name)
             THEN <<parse_dynamodb_item(Head(records).image)>> \o rest
             ELSE rest

DetailCap == 5

\* the country names of the model, spelled out, and the code points of
\* their characters: Python orders str by code point
Spelling ==
    [Mexico |-> <<"M", "e", "x", "i", "c", "o">>,
     USA |-> <<"U", "S", "A">>,
     Unknown |-> <<"U", "n", "k", "n", "o", "w", "n">>]

CodePoint ==
    [A |-> 65, M |-> 77, S |-> 83, U |-> 85, c |-> 99, e |-> 101, i |-> 105,
     k |-> 107, n |-> 110, o |-> 111, w |-> 119, x |-> 120]

\* a < b for two str
RECURSIVE SeqLess(_, _)
SeqLess(a, b) ==
    IF b = <<>> THEN FALSE
    ELSE IF a = <<>> THEN TRUE
    ELSE IF CodePoint[Head(a)] # CodePoint[Head(b)]
    THEN CodePoint[Head(a)] < CodePoint[Head(b)]
    ELSE SeqLess(Tail(a), Tail(b))

\* the descending order
StrGreater(a, b) == SeqLess(Spelling[b], Spelling[a])

StrLess(a, b) == SeqLess(Spelling[a], Spelling[b])

\* the keys of fires_by_country: the countries in the order of their first fire
RECURSIVE FirstSeen(_, _)
FirstSeen(fs, seen) ==
    IF fs = <<>> THEN <<>>
    ELSE IF Head(fs).location_country \in seen THEN FirstSeen(Tail(fs), seen)
    ELSE <<Head(fs).location_country>>
         \o FirstSeen(Tail(fs), seen \cup {Head(fs).location_country})

\* fires_by_country[country]: its fires in the order of the delivery
CountryFires(fs, country) == SelectSeq(fs, LAMBDA f : f.location_country = country)

\* the two lines of one detailed fire
FireLines(fire) ==
    <<[kind |-> "fire", city |-> fire.location_city, state |-> fire.location_state,
       latitude |-> fire.latitude, longitude |-> fire.longitude],
      [kind |-> "detail", frp |-> fire.frp]>>

RECURSIVE DetailLines(_)
DetailLines(fs) ==
    IF fs = <<>> THEN <<>> ELSE FireLines(Head(fs)) \o DetailLines(Tail(fs))

\* a breakdown that announces the overflow from the fifth fire on
GroupLines_from5(country, country_fires) ==
    <<[kind |-> "blank"],
      [kind |-> "country", country |-> country, count |-> Len(country_fires)]>>
    \o DetailLines(SubSeq(country_fires, 1, Min(DetailCap, Len(country_fires))))
    \o (IF Len(country_fires) >= DetailCap
        THEN <<[kind |-> "more", count |-> Len(country_fires) - DetailCap]>>
        ELSE <<>>)

\* the lines of one country of the breakdown
GroupLines(country, country_fires) ==
    <<[kind |-> "blank"],
      [kind |-> "country", country |-> country, count |-> Len(country_fires)]>>
    \o DetailLines(SubSeq(country_fires, 1, Min(DetailCap, Len(country_fires))))
    \o (IF Len(country_fires) > DetailCap
        THEN <<[kind |-> "more", count |-> Len(country_fires) - DetailCap]>>
        ELSE <<>>)

RECURSIVE BreakdownLines(_, _)
BreakdownLines(fs, countries) ==
    IF countries = <<>> THEN <<>>
    ELSE GroupLines(Head(countries), CountryFires(fs, Head(countries)))
         \o BreakdownLines(fs, Tail(countries))

\* message_lines: head, the countries in sorted order, footer
MessageLines(fs) ==
    <<[kind |-> "total", count |-> Len(fs)], [kind |-> "blank"],
      [kind |-> "summary"], [kind |-> "rule"]>>
    \o BreakdownLines(fs, SortSeq(FirstSeen(fs, {}), StrLess))
    \o <<[kind |-> "blank"], [kind |-> "rule"], [kind |-> "time"],
          [kind |-> "blank"], [kind |-> "automated"]>>

\* a notification that names the country of every fire
Notification_perFire(new_fires) ==
    [subject_count |-> Len(new_fires),
     message |-> MessageLines(new_fires),
     fire_count |-> Len(new_fires),
     countries |-> [i \in DOMAIN new_fires |-> new_fires[i].location_country],
     fire_ids |-> [i \in DOMAIN new_fires |-> new_fires[i].fire_id]]

\* what send_fire_alerts hands to sns.publish
Notification(new_fires) ==
    [subject_count |-> Len(new_fires),
     message |-> MessageLines(new_fires),
     fire_count |-> Len(new_fires),
     countries |-> FirstSeen(new_fires, {}),
     fire_ids |-> [i \in DOMAIN new_fires |-> new_fires[i].fire_id]]

\* send_fire_alerts: raises when sns.publish does
send_fire_alerts(new_fires, snsUp) ==
    IF snsUp
    THEN [raised |-> FALSE, sent |-> <<Notification(new_fires)>>, publish_calls |-> 1]
    ELSE [raised |-> TRUE, sent |-> <<>>, publish_calls |-> 1]

\* an alert for every delivery
ShouldAlert_always(new_fires) == TRUE

\* if new_fires:
ShouldAlert(new_fires) == new_fires # <<>>

\* a handler without its except clause: the error of sns.publish leaves it
NotifierHandler_uncaught(records, snsUp) ==
    LET new_fires == SelectEvents(records, "INSERT")
        updated_fires == SelectEvents(records, "MODIFY")
        removed_fires == SelectEvents(records, "REMOVE")
        alert == IF ShouldAlert(new_fires) THEN send_fire_alerts(new_fires, snsUp)
                 ELSE [raised |-> FALSE, sent |-> <<>>, publish_calls |-> 0]
    IN  [raised |-> alert.raised,
         statusCode |-> IF alert.raised THEN 0 ELSE StatusOk,
         new_fires |-> IF alert.raised THEN 0 ELSE Len(new_fires),
         updated_fires |-> IF alert.raised THEN 0 ELSE Len(updated_fires),
         removed_fires |-> IF alert.raised THEN 0 ELSE Len(removed_fires),
         publishFailed |-> alert.raised, sent |-> alert.sent,
         publish_calls |-> alert.publish_calls, records |-> records]

\* lambda_handler: raised tells whether an exception leaves the handler
NotifierHandler(records, snsUp) ==
    LET new_fires == SelectEvents(records, "INSERT")
        updated_fires == SelectEvents(records, "MODIFY")
        removed_fires == SelectEvents(records, "REMOVE")
        alert == IF ShouldAlert(new_fires) THEN send_fire_alerts(new_fires, snsUp)
                 ELSE [raised |-> FALSE, sent |-> <<>>, publish_calls |-> 0]
    IN  IF alert.raised
        THEN [raised |-> FALSE, statusCode |-> StatusError, new_fires |-> 0,
              updated_fires |-> 0, removed_fires |-> 0,
              publishFailed |-> TRUE, sent |-> <<>>,
              publish_calls |-> alert.publish_calls, records |-> records]
        ELSE [raised |-> FALSE, statusCode |-> StatusOk,
              new_fires |-> Len(new_fires),
              updated_fires |-> Len(updated_fires),
              removed_fires |-> Len(removed_fires),
              publishFailed |-> FALSE, sent |-> alert.sent,
              publish_calls |-> alert.publish_calls, records |-> records]

\* no invocation yet
NoNResult == [raised |-> FALSE, statusCode |-> 0, new_fires |-> 0,
              updated_fires |-> 0, removed_fires |-> 0,
              publishFailed |-> FALSE, sent |-> <<>>,
              publish_calls |-> 0, records |-> <<>>]

\* the change feed delivers its next k records; the feed moves past them
\* when the invocation succeeds and keeps them for a retry when it fails
NotifierDeliver(k, snsUp) ==
    /\ LET records == SubSeq(stream, streamPos + 1, streamPos + k)
           r == NotifierHandler(records, snsUp)
       IN  /\ nresult' = r
           /\ published' = published \o r.sent
           /\ streamPos' = IF r.raised THEN streamPos ELSE streamPos + k
    /\ UNCHANGED <<now, chunk, table, stream, pc, event, msgIdx, fires,
                   total_processed, total_stored, errors, result, invocations,
                   last, passClean, snap, AuxVars>>

NotifierInvoke ==
    /\ streamPos < Len(stream)
    /\ \E k \in 1..(Len(stream) - streamPos), snsUp \in BOOLEAN :
          NotifierDeliver(k, snsUp)

\* the change feed delivers all its records in one batch
AlertInvoke ==
    /\ streamPos < Len(stream)
    /\ \E snsUp \in BOOLEAN : NotifierDeliver(Len(stream) - streamPos, snsUp)

----------------------------------------------------------------------------
(* Specifications *)

\* the change records a Notifier delivery may carry
ItemLocated == BuildItem(FireRecord(FA, Located), 0)
ItemUnknown == BuildItem(FireRecord(FC, UnknownLocation), 0)

ChangeRecords == {[eventName |-> "INSERT", image |-> ItemLocated],
                  [eventName |-> "INSERT", image |-> ItemUnknown],
                  [eventName |-> "MODIFY", image |-> ItemLocated],
                  [eventName |-> "REMOVE", image |-> ItemLocated]}

StreamInputs == UNION {[1..n -> ChangeRecords] : n \in 1..MaxStream}

\* the table a sequence of change records leaves behind
RECURSIVE TableAfter(_, _)
TableAfter(tbl, records) ==
    IF records = <<>> THEN tbl
    ELSE LET rec == Head(records)
             others == {r \in tbl : r.fire_id # rec.image.fire_id}
         IN  TableAfter(IF rec.eventName = "REMOVE" THEN others
                        ELSE others \cup {rec.image},
                        Tail(records))

InitCore(c, tbl, feed) ==
    /\ now = 0
    /\ chunk = c
    /\ table = tbl
    /\ stream = feed
    /\ pc = "idle"
    /\ event = <<>>
    /\ msgIdx = 0
    /\ fires = <<>>
    /\ total_processed = 0
    /\ total_stored = 0
    /\ errors = <<>>
    /\ result = NoResult
    /\ invocations = 0
    /\ last = NoLast
    /\ passClean = TRUE
    /\ snap = NoSnap
    /\ streamPos = 0
    /\ published = <<>>
    /\ nresult = NoNResult

KeyIdle == derived = <<>>
FetcherIdle == fetcher = [pc |-> "off"]
ParserIdle == parser = [pc |-> "off"]
WorkersIdle == workers = <<>>
CacheIdle == cache = [pc |-> "off"]
SqsIdle == sqs = [pc |-> "off"]

InitWith(c, tbl, feed) ==
    /\ InitCore(c, tbl, feed)
    /\ KeyIdle /\ FetcherIdle /\ ParserIdle /\ WorkersIdle
    /\ CacheIdle /\ SqsIdle

\* the Processor on an empty table
Init == \E c \in Chunks : InitWith(c, {}, <<>>)

\* the Notifier in front of a change feed
InitNotifier == \E feed \in StreamInputs : InitWith(<<FA>>, TableAfter({}, feed), feed)

Next ==
    \/ ProcInvoke
    \/ ProcMessage
    \/ ProcFire
    \/ ProcReturn
    \/ Tick

Spec == Init /\ [][Next]_vars

NextBatch ==
    \/ ProcInvokeBatch
    \/ ProcMessage
    \/ ProcFire
    \/ ProcReturn
    \/ Tick

\* the Processor under deliveries of up to batch_size records
SpecBatch == Init /\ [][NextBatch]_vars

NextNotifier == NotifierInvoke

SpecNotifier == InitNotifier /\ [][NextNotifier]_vars

MaxGroup == 7
MaxOther == 2

\* the item of the i-th fire of a feed, located in a country
AlertItem(i, country) ==
    BuildItem(FireRecord([FA EXCEPT !.latitude = IntStr(i)],
                         [Located EXCEPT !.countryName = country]), 0)

\* feeds of INSERT records: m fires in Mexico, and u fires in the USA that
\* arrive after the p-th of them
AlertFeed(m, u, p) ==
    [i \in 1..(m + u) |->
        [eventName |-> "INSERT",
         image |-> AlertItem(i, IF i > p /\ i <= p + u THEN "USA" ELSE "Mexico")]]

AlertFeeds ==
    UNION {{AlertFeed(m, u, p) : p \in 0..m} : m \in 0..MaxGroup, u \in 0..MaxOther}
    \ {<<>>}

InitAlert == \E feed \in AlertFeeds : InitWith(<<FA>>, TableAfter({}, feed), feed)

NextAlert == AlertInvoke

\* the Notifier in front of feeds of new fires, delivered whole
SpecAlert == InitAlert /\ [][NextAlert]_vars

----------------------------------------------------------------------------
(* The derivation of fire_id, detection by detection *)

MaxDerive == 2

\* an acquisition date that ends, and an acquisition time that starts, with
\* the character store_fire_data joins the fields with
DateU == <<"d", "_">>
TimeU == <<"_", "t">>

\* what a detection may carry: coordinates that differ in latitude or in
\* longitude, and each of acquisition date and acquisition time absent,
\* empty or present
KeyInputs ==
    LET coords == {[latitude |-> c[1], longitude |-> c[2], frp |-> 5] :
                      c \in {<<Lat1, Lon1>>, <<Lon1, Lon1>>, <<Lat1, Lat1>>}}
        dates == {[x |-> 0], [acq_date |-> Empty], [acq_date |-> Date1],
                  [acq_date |-> DateU]}
        times == {[x |-> 0], [acq_time |-> Empty], [acq_time |-> Time1],
                  [acq_time |-> TimeU]}
        Field(f) == IF "x" \in DOMAIN f THEN <<>> ELSE f
    IN  {c @@ Field(d) @@ Field(t) : c \in coords, d \in dates, t \in times}

\* process_fire builds the record, store_fire_data derives its key at the
\* second `now`
KeyDerive ==
    /\ Len(derived) < MaxDerive
    /\ \E fire \in KeyInputs :
          derived' = Append(derived,
                        [fire |-> fire, at |-> now,
                         fire_id |-> BuildItem(FireRecord(fire, UnknownLocation),
                                               now).fire_id])
    /\ UNCHANGED <<now, chunk, table, stream, pc, event, msgIdx, fires,
                   total_processed, total_stored, errors, result, invocations,
                   last, passClean, snap, NotifierVars, fetcher, parser, workers,
                   cache, sqs>>

InitKey ==
    /\ InitCore(<<FA>>, {}, <<>>)
    /\ KeyIdle /\ FetcherIdle /\ ParserIdle /\ WorkersIdle
    /\ CacheIdle /\ SqsIdle

NextKey ==
    \/ KeyDerive
    \/ Tick

SpecKey == InitKey /\ [][NextKey]_vars

----------------------------------------------------------------------------
(* The Fetcher's parser: parse_csv_data *)
(*                                                                         *)
(* The feed body is a sequence of one-character strings.  The texts of the *)
(* model are made of digits, ".", "-", letters, ",", " " and "\n".         *)

MaxRows == 3

\* the names the parser looks up, spelled out
Chars ==
    [latitude |-> <<"l", "a", "t", "i", "t", "u", "d", "e">>,
     longitude |-> <<"l", "o", "n", "g", "i", "t", "u", "d", "e">>,
     brightness |-> <<"b", "r", "i", "g", "h", "t", "n", "e", "s", "s">>,
     acq_date |-> <<"a", "c", "q", "_", "d", "a", "t", "e">>,
     acq_time |-> <<"a", "c", "q", "_", "t", "i", "m", "e">>,
     satellite |-> <<"s", "a", "t", "e", "l", "l", "i", "t", "e">>,
     instrument |-> <<"i", "n", "s", "t", "r", "u", "m", "e", "n", "t">>,
     confidence |-> <<"c", "o", "n", "f", "i", "d", "e", "n", "c", "e">>,
     frp |-> <<"f", "r", "p">>,
     daynight |-> <<"d", "a", "y", "n", "i", "g", "h", "t">>,
     unknown |-> <<"u", "n", "k", "n", "o", "w", "n">>]

Whitespace == {" ", "\n"}

\* str.strip()
strip(s) ==
    LET keep == {i \in 1..Len(s) : s[i] \notin Whitespace}
    IN  IF keep = {} THEN <<>>
        ELSE SubSeq(s, CHOOSE i \in keep : \A j \in keep : i <= j,
                       CHOOSE i \in keep : \A j \in keep : j <= i)

\* str.split(sep): the pieces between the separators, empty pieces included
split(s, sep) ==
    LET seps == {i \in 1..Len(s) : s[i] = sep}
        n == Cardinality(seps)
        pos(k) == IF k = 0 THEN 0
                  ELSE IF k = n + 1 THEN Len(s) + 1
                  ELSE CHOOSE p \in seps : Cardinality({q \in seps : q < p}) = k - 1
    IN  [k \in 1..(n + 1) |-> SubSeq(s, pos(k - 1) + 1, pos(k) - 1)]

\* the number written by a sequence of digits
RECURSIVE DigitsVal(_)
DigitsVal(ds) ==
    IF ds = <<>> THEN 0
    ELSE 10 * DigitsVal(SubSeq(ds, 1, Len(ds) - 1))
         + (CHOOSE d \in 0..9 : Digits[d + 1] = ds[Len(ds)])

\* a float m / 10^e with the trailing zeros of the fraction removed
RECURSIVE Normal(_, _)
Normal(m, e) ==
    IF e > 0 /\ m % 10 = 0 THEN Normal(m \div 10, e - 1) ELSE [mant |-> m, exp |-> e]

\* float(0), the default of the numeric fields
FloatZero == [mant |-> 0, exp |-> 0]

\* a float() that takes every text for a number
float_lenient(text) == [ok |-> TRUE, value |-> FloatZero]

\* float(text) on a decimal literal: optional blanks around an optional
\* sign, digits with at most one point and at least one digit; every other
\* text of the model is a ValueError
float(text) ==
    LET t == strip(text)
        signed == t # <<>> /\ t[1] \in {"-", "+"}
        body == IF signed THEN Tail(t) ELSE t
        dots == {i \in 1..Len(body) : body[i] = "."}
        digs == SelectSeq(body, LAMBDA ch : ch # ".")
        isDigit(ch) == \E d \in 1..10 : Digits[d] = ch
        frac == IF dots = {} THEN 0 ELSE Len(body) - (CHOOSE i \in dots : TRUE)
        mag == Normal(DigitsVal(digs), frac)
    IN  IF /\ Cardinality(dots) <= 1
           /\ digs # <<>>
           /\ \A i \in 1..Len(digs) : isDigit(digs[i])
        THEN [ok |-> TRUE,
              value |-> IF signed /\ t[1] = "-"
                        THEN [mant |-> 0 - mag.mant, exp |-> mag.exp] ELSE mag]
        ELSE [ok |-> FALSE, value |-> FloatZero]

\* dict(zip(header, values)): of two columns of one name the later one stays
dict_zip(header, values) ==
    LET n == Min(Len(header), Len(values))
    IN  [k \in {header[i] : i \in 1..n} |->
            values[CHOOSE i \in 1..n :
                      header[i] = k /\ \A j \in 1..n : header[j] = k => j <= i]]

NumericColumns == {"latitude", "longitude", "brightness", "frp"}

\* one iteration of the loop over the data rows: the row is skipped (short
\* row, or ValueError in float) or gives a fire_record
parse_row(header, line) ==
    LET values == split(line, ",")
        fire == dict_zip(header, values)
        has(k) == Chars[k] \in DOMAIN fire
        num(k) == IF has(k) THEN float(fire[Chars[k]])
                  ELSE [ok |-> TRUE, value |-> FloatZero]
        str(k, default) == IF has(k) THEN fire[Chars[k]] ELSE default
    IN  IF Len(values) < Len(header) THEN [ok |-> FALSE]
        ELSE IF \E k \in NumericColumns : ~num(k).ok THEN [ok |-> FALSE]
        ELSE [ok |-> TRUE,
              fire |-> [latitude |-> num("latitude").value,
                        longitude |-> num("longitude").value,
                        brightness |-> num("brightness").value,
                        confidence |-> str("confidence", Chars.unknown),
                        frp |-> num("frp").value,
                        acq_date |-> str("acq_date", Empty),
                        acq_time |-> str("acq_time", Empty),
                        satellite |-> str("satellite", Empty),
                        instrument |-> str("instrument", Empty),
                        daynight |-> str("daynight", Empty)]]

RECURSIVE ParseRows(_, _)
ParseRows(header, lines) ==
    IF lines = <<>> THEN <<>>
    ELSE LET r == parse_row(header, Head(lines))
         IN  (IF r.ok THEN <<r.fire>> ELSE <<>>) \o ParseRows(header, Tail(lines))

parse_csv_data(csv_data) ==
    LET lines == split(strip(csv_data), "\n")
    IN  IF Len(lines) < 2 THEN <<>>
        ELSE ParseRows(split(lines[1], ","), Tail(lines))

(* The feed bodies of the model *)

\* the columns of the feed that the parser reads, in the feed's order
Columns == <<"latitude", "longitude", "brightness", "acq_date", "acq_time",
             "satellite", "instrument", "confidence", "frp", "daynight">>

Without(c) == SelectSeq(Columns, LAMBDA x : x # c)

\* the headers: all the columns, or one of them missing
Headers == {Columns, Without("latitude"), Without("confidence"), Without("acq_date")}

\* the cells of a row, by column
Row1 == [latitude |-> <<"1", ".", "5", "0">>, longitude |-> <<"-", "2">>,
         brightness |-> <<"3">>, acq_date |-> <<"d">>, acq_time |-> <<"t">>,
         satellite |-> <<"N">>, instrument |-> <<"V">>, confidence |-> <<"h">>,
         frp |-> <<"4">>, daynight |-> <<"D">>]

Row2 == [Row1 EXCEPT !.latitude = <<"7">>]

NotANumber == <<"a", "b", "c">>

\* a row as the feed may send it: full, one cell short, or one cell long,
\* and with one numeric cell unparsable
RowInputs ==
    {[cells |-> Row1, shape |-> "full"], [cells |-> Row2, shape |-> "full"],
     [cells |-> Row2, shape |-> "short"], [cells |-> Row1, shape |-> "long"]}
    \cup {[cells |-> [Row2 EXCEPT ![k] = NotANumber], shape |-> "full"] :
             k \in NumericColumns}

RECURSIVE Join(_, _)
Join(pieces, sep) ==
    IF pieces = <<>> THEN <<>>
    ELSE IF Len(pieces) = 1 THEN pieces[1]
    ELSE pieces[1] \o <<sep>> \o Join(Tail(pieces), sep)

\* the line of a row under a header
RowLine(cols, row) ==
    LET cells == [i \in 1..Len(cols) |-> row.cells[cols[i]]]
    IN  Join(IF row.shape = "short" THEN SubSeq(cells, 1, Len(cells) - 1)
             ELSE IF row.shape = "long" THEN Append(cells, <<"x">>)
             ELSE cells, ",")

\* the body of a feed: header line, data lines, and a final newline or not
Body(feed) ==
    IF feed.empty THEN <<>>
    ELSE Join(<<Join([i \in 1..Len(feed.cols) |-> Chars[feed.cols[i]]], ",")>>
              \o [i \in 1..Len(feed.rows) |-> RowLine(feed.cols, feed.rows[i])],
              "\n")
         \o (IF feed.newline THEN <<"\n">> ELSE <<>>)

RowSeqs == UNION {[1..n -> RowInputs] : n \in 0..MaxRows}

Feeds ==
    {[empty |-> TRUE, cols |-> Columns, rows |-> <<>>, newline |-> FALSE]}
    \cup {[empty |-> FALSE, cols |-> h, rows |-> rs, newline |-> nl] :
             h \in Headers, rs \in RowSeqs, nl \in BOOLEAN}

\* fetch_firms_data hands the decoded body to parse_csv_data
ParseFeed ==
    /\ parser.pc = "ready"
    /\ parser' = [pc |-> "done", feed |-> parser.feed,
                  fires |-> parse_csv_data(Body(parser.feed))]
    /\ UNCHANGED <<now, chunk, table, stream, pc, event, msgIdx, fires,
                   total_processed, total_stored, errors, result, invocations,
                   last, passClean, snap, NotifierVars, derived, fetcher, workers,
                   cache, sqs>>

InitParse ==
    /\ InitCore(<<FA>>, {}, <<>>)
    /\ KeyIdle /\ FetcherIdle /\ WorkersIdle /\ CacheIdle /\ SqsIdle
    /\ \E feed \in Feeds : parser = [pc |-> "ready", feed |-> feed]

NextParse == ParseFeed

SpecParse == InitParse /\ [][NextParse]_vars

----------------------------------------------------------------------------
(* The Fetcher: fetch_fires.lambda_handler, one step per call and per     *)
(* iteration of the loop of send_to_queue                                  *)

MaxFound == 25

BatchSize == 10
NotFound == 404
StatusBadRequest == 400

PlaceholderKey == "YOUR_MAP_KEY_HERE"

\* what get_secret returns: the secret, or {} when it cannot be read
Secrets == {[map_key |-> "key"], [map_key |-> PlaceholderKey], [map_key |-> ""],
            [other |-> "x"]}

\* a feed of n rows that differ in their latitude
FeedOf(n) ==
    [empty |-> FALSE, cols |-> Columns, newline |-> TRUE,
     rows |-> [i \in 1..n |->
                 [cells |-> [Row2 EXCEPT !.latitude = IntStr(i)], shape |-> "full"]]]

\* what urlopen does: a body, an HTTP error status, or no answer
Responses ==
    {[kind |-> "ok", body |-> Body(FeedOf(n))] : n \in 0..MaxFound}
    \cup {[kind |-> "ok", body |-> <<>>]}
    \cup {[kind |-> "http", code |-> c] : c \in {NotFound, StatusError}}
    \cup {[kind |-> "timeout"], [kind |-> "refused"]}

\* a fetch that takes every error for "no data"
fetch_firms_data_lenient(resp) ==
    IF resp.kind = "ok"
    THEN [raised |-> FALSE, fires |-> parse_csv_data(resp.body)]
    ELSE [raised |-> FALSE, fires |-> <<>>]

fetch_firms_data(resp) ==
    IF resp.kind = "ok"
    THEN [raised |-> FALSE, fires |-> parse_csv_data(resp.body)]
    ELSE IF resp.kind = "http" /\ resp.code = NotFound
    THEN [raised |-> FALSE, fires |-> <<>>]
    ELSE [raised |-> TRUE, fires |-> <<>>]

\* f"batch_{i//batch_size}"
BatchId(i, batch_size) == <<"b", "a", "t", "c", "h", "_">> \o IntStr(i \div batch_size)

\* a slice that loses the last detection of every chunk
Batch_short(fs, i, batch_size) == SubSeq(fs, i + 1, Min(i + batch_size - 1, Len(fs)))

\* fires[i:i + batch_size]
Batch(fs, i, batch_size) == SubSeq(fs, i + 1, Min(i + batch_size, Len(fs)))

\* a loop that gives up at the first failed send
send_to_queue_abort(f, up, timestamp) ==
    LET batch == Batch(f.fires, f.i, BatchSize)
        message == [fires |-> batch, batch_id |-> BatchId(f.i, BatchSize),
                    timestamp |-> timestamp]
    IN  [f EXCEPT !.i = IF up THEN f.i + BatchSize ELSE Len(f.fires),
                  !.attempts = Append(@, [message |-> message, sent |-> up]),
                  !.queue = IF up THEN Append(@, message) ELSE @,
                  !.sent_count = IF up THEN @ + Len(batch) ELSE @]

\* one iteration of the loop of send_to_queue; up = FALSE: send_message raises
send_to_queue(f, up, timestamp) ==
    LET batch == Batch(f.fires, f.i, BatchSize)
        message == [fires |-> batch, batch_id |-> BatchId(f.i, BatchSize),
                    timestamp |-> timestamp]
    IN  [f EXCEPT !.i = f.i + BatchSize,
                  !.attempts = Append(@, [message |-> message, sent |-> up]),
                  !.queue = IF up THEN Append(@, message) ELSE @,
                  !.sent_count = IF up THEN @ + Len(batch) ELSE @]

NoFetchResult == [statusCode |-> 0]

\* the Fetcher before its invocation
FetcherReady ==
    [pc |-> "ready", resp |-> [kind |-> "none"], fires |-> <<>>, i |-> 0,
     sent_count |-> 0, attempts |-> <<>>, queue |-> <<>>,
     raised |-> FALSE, result |-> NoFetchResult]

FetcherRest ==
    <<now, chunk, table, stream, pc, event, msgIdx, fires, total_processed,
      total_stored, errors, result, invocations, last, passClean, snap,
      NotifierVars, derived, parser, workers, cache, sqs>>

\* get_secret, and the test of map_key
FetchInvoke ==
    /\ fetcher.pc = "ready"
    /\ \E secret \in Secrets :
          LET map_key == DictGet(secret, "map_key", "")
          IN  IF map_key = "" \/ map_key = PlaceholderKey
              THEN fetcher' = [fetcher EXCEPT !.pc = "done",
                                 !.result = [statusCode |-> StatusBadRequest]]
              ELSE fetcher' = [fetcher EXCEPT !.pc = "fetch"]
    /\ UNCHANGED FetcherRest

\* fires = fetch_firms_data(map_key), and the two ways out before dispatch
FetchFeed ==
    /\ fetcher.pc = "fetch"
    /\ \E resp \in Responses :
          LET got == fetch_firms_data(resp)
          IN  IF got.raised
              THEN fetcher' = [fetcher EXCEPT !.pc = "done", !.resp = resp,
                                 !.result = [statusCode |-> StatusError]]
              ELSE IF got.fires = <<>>
              THEN fetcher' = [fetcher EXCEPT !.pc = "done", !.resp = resp,
                                 !.result = [statusCode |-> StatusOk,
                                             fires_found |-> 0]]
              ELSE fetcher' = [fetcher EXCEPT !.pc = "send", !.resp = resp,
                                 !.fires = got.fires]
    /\ UNCHANGED FetcherRest

SendBatch ==
    /\ fetcher.pc = "send"
    /\ fetcher.i < Len(fetcher.fires)
    /\ \E up \in BOOLEAN : fetcher' = send_to_queue(fetcher, up, now)
    /\ UNCHANGED FetcherRest

FetchReturn ==
    /\ fetcher.pc = "send"
    /\ fetcher.i >= Len(fetcher.fires)
    /\ fetcher' = [fetcher EXCEPT !.pc = "done",
                      !.result = [statusCode |-> StatusOk,
                                  fires_found |-> Len(fetcher.fires),
                                  fires_queued |-> fetcher.sent_count]]
    /\ UNCHANGED FetcherRest

InitFetch ==
    /\ InitCore(<<FA>>, {}, <<>>)
    /\ KeyIdle /\ ParserIdle /\ WorkersIdle /\ CacheIdle /\ SqsIdle
    /\ fetcher = FetcherReady

NextFetch ==
    \/ FetchInvoke
    \/ FetchFeed
    \/ SendBatch
    \/ FetchReturn

SpecFetch == InitFetch /\ [][NextFetch]_vars

----------------------------------------------------------------------------
(* Two Processor workers at the same time: each runs process_fire on a    *)
(* detection of its own delivery; the table is shared and put_item is     *)
(* atomic                                                                  *)

WorkerIds == {1, 2}

\* the detections the two deliveries may carry
WorkerFires == {FA, FB, FC}

WorkerStart(fire) ==
    [pc |-> "lookup", fire |-> fire, resp |-> [kind |-> "none"], timestamp |-> 0,
     what |-> "none", item |-> NoItem]

WorkerRest ==
    <<chunk, pc, event, msgIdx, fires, total_processed, total_stored, errors,
      result, invocations, last, passClean, snap, NotifierVars, derived,
      fetcher, parser, cache, sqs>>

\* location_data = get_location_from_coordinates(lat, lon)
WorkerLookup(w) ==
    /\ workers[w].pc = "lookup"
    /\ \E resp \in GeoResponses :
          workers' = [workers EXCEPT ![w].pc = "stamp", ![w].resp = resp]
    /\ UNCHANGED <<now, table, stream>>
    /\ UNCHANGED WorkerRest

\* store_fire_data reads the clock and builds the item
WorkerStamp(w) ==
    /\ workers[w].pc = "stamp"
    /\ workers' = [workers EXCEPT ![w].pc = "put", ![w].timestamp = now]
    /\ UNCHANGED <<now, table, stream>>
    /\ UNCHANGED WorkerRest

\* the conditional put, and the return of process_fire
WorkerPut(w) ==
    /\ workers[w].pc = "put"
    /\ \E storeUp \in BOOLEAN :
          LET r == process_fire(workers[w].fire, workers[w].resp,
                                workers[w].timestamp, table, storeUp)
          IN  /\ table' = r.table
              /\ stream' = stream \o StreamRecords(r.created, r.item)
              /\ workers' = [workers EXCEPT ![w].pc = "done", ![w].what = r.what,
                                            ![w].item = r.item]
    /\ UNCHANGED now
    /\ UNCHANGED WorkerRest

InitConc ==
    /\ InitCore(<<FA>>, {}, <<>>)
    /\ KeyIdle /\ FetcherIdle /\ ParserIdle /\ CacheIdle /\ SqsIdle
    /\ \E f1, f2 \in WorkerFires : workers = <<WorkerStart(f1), WorkerStart(f2)>>

NextConc ==
    \/ \E w \in WorkerIds : WorkerLookup(w)
    \/ \E w \in WorkerIds : WorkerStamp(w)
    \/ \E w \in WorkerIds : WorkerPut(w)
    \/ Tick

SpecConc == InitConc /\ [][NextConc]_vars

----------------------------------------------------------------------------
(* The credential of the geocode service: _api_key_cache, a global of the *)
(* Processor's module that lives as long as the worker                     *)

MaxLookups == 4

\* Python's None
None == "<None>"

\* what secretsmanager.get_secret_value and json.loads can produce: an
\* exception, or the secret's JSON object, with a key, with an empty key,
\* with null for the key, or without the key
SecretOutcomes ==
    {[kind |-> "error"]}
    \cup {[kind |-> "secret", secret |-> sec] :
             sec \in {[api_key |-> "key-1"], [api_key |-> "key-2"],
                      [api_key |-> ""], [api_key |-> None], [other |-> "x"]}}

get_bigdata_api_key(out) ==
    IF out.kind = "error" THEN "" ELSE DictGet(out.secret, "api_key", "")

\* a load that asks the secret store at every lookup
LoadKey_always(api_key_cache, out) ==
    [api_key_cache |-> get_bigdata_api_key(out), fetched |-> TRUE]

\* if _api_key_cache is None: _api_key_cache = get_bigdata_api_key()
LoadKey(api_key_cache, out) ==
    IF api_key_cache = None
    THEN [api_key_cache |-> get_bigdata_api_key(out), fetched |-> TRUE]
    ELSE [api_key_cache |-> api_key_cache, fetched |-> FALSE]

\* the worker after its cold start: nothing cached, nothing looked up
CacheCold ==
    [pc |-> "warm", api_key_cache |-> None, invocation |-> 1, lookups |-> <<>>]

CacheRest ==
    <<now, chunk, table, stream, pc, event, msgIdx, fires, total_processed,
      total_stored, errors, result, invocations, last, passClean, snap,
      NotifierVars, derived, fetcher, parser, workers, sqs>>

\* one call of get_location_from_coordinates; the lookup sends the key when
\* it is not empty
CacheLookup ==
    /\ cache.pc = "warm"
    /\ Len(cache.lookups) < MaxLookups
    /\ \E out \in SecretOutcomes :
          LET load == LoadKey(cache.api_key_cache, out)
          IN  cache' = [cache EXCEPT
                  !.api_key_cache = load.api_key_cache,
                  !.lookups = Append(@,
                      [invocation |-> cache.invocation,
                       before |-> cache.api_key_cache,
                       fetched |-> load.fetched,
                       got |-> IF load.fetched THEN load.api_key_cache ELSE None,
                       sends_key |-> load.api_key_cache \notin {None, ""}])]
    /\ UNCHANGED CacheRest

\* the worker is invoked again: the module's globals stay
CacheNextInvocation ==
    /\ cache.pc = "warm"
    /\ cache.invocation < MaxInvocations
    /\ cache' = [cache EXCEPT !.invocation = @ + 1]
    /\ UNCHANGED CacheRest

InitCache ==
    /\ InitCore(<<FA>>, {}, <<>>)
    /\ KeyIdle /\ FetcherIdle /\ ParserIdle /\ WorkersIdle /\ SqsIdle
    /\ cache = CacheCold

NextCache ==
    \/ CacheLookup
    \/ CacheNextInvocation

SpecCache == InitCache /\ [][NextCache]_vars

----------------------------------------------------------------------------
(* The work queue in front of the Processor: the queue, its dead-letter   *)
(* queue after max_receive_count receives, and the Lambda consumer, which *)
(* deletes the messages of a batch when the invocation returns and leaves *)
(* them to become visible again when the invocation fails                  *)

MaxUnits == 2

MaxReceiveCount == 3

Units == 1..MaxUnits

\* a redrive that lets a message be received once more
ToDeadLetter_late(receives) == receives >= MaxReceiveCount + 1

\* the redrive policy: a message received max_receive_count times goes to
\* the dead-letter queue instead of being received again
ToDeadLetter(receives) == receives >= MaxReceiveCount

SqsRest ==
    <<now, chunk, table, stream, pc, event, msgIdx, fires, total_processed,
      total_stored, errors, result, invocations, last, passClean, snap,
      NotifierVars, derived, fetcher, parser, workers, cache>>

InFlight == {m \in Units : sqs.msgs[m].state = "inflight"}
Visible == {m \in Units : sqs.msgs[m].state = "visible"}

\* the consumer polls: of the visible messages it asks for, those at the
\* limit are moved to the dead-letter queue, the others are handed to one
\* invocation of the Processor as a batch
SqsReceive ==
    /\ sqs.pc = "on"
    /\ InFlight = {}
    /\ \E batch \in (SUBSET Visible) \ {{}} :
          /\ Cardinality(batch) <= SqsBatchSize
          /\ sqs' = [sqs EXCEPT !.msgs =
                [m \in Units |->
                    IF m \notin batch THEN sqs.msgs[m]
                    ELSE IF ToDeadLetter(sqs.msgs[m].receives)
                    THEN [sqs.msgs[m] EXCEPT !.state = "dlq"]
                    ELSE [sqs.msgs[m] EXCEPT !.state = "inflight",
                                             !.receives = @ + 1]]]
    /\ UNCHANGED SqsRest

\* lambda_handler returns its summary, whatever its status: the consumer
\* deletes the messages of the batch
SqsInvokeReturn ==
    /\ sqs.pc = "on"
    /\ InFlight # {}
    /\ \A m \in InFlight : ~sqs.msgs[m].poison
    /\ sqs' = [sqs EXCEPT !.msgs =
                 [m \in Units |-> IF m \in InFlight
                                  THEN [sqs.msgs[m] EXCEPT !.state = "deleted"]
                                  ELSE sqs.msgs[m]]]
    /\ UNCHANGED SqsRest

\* the invocation fails (it runs out of time or of memory, or the worker
\* dies): the messages of the batch become visible again
SqsInvokeFail ==
    /\ sqs.pc = "on"
    /\ InFlight # {}
    /\ sqs' = [sqs EXCEPT !.msgs =
                 [m \in Units |-> IF m \in InFlight
                                  THEN [sqs.msgs[m] EXCEPT !.state = "visible"]
                                  ELSE sqs.msgs[m]]]
    /\ UNCHANGED SqsRest

\* the queue holds its messages, none received yet; a poison message is one
\* whose invocation fails every time
InitRedrive ==
    /\ InitCore(<<FA>>, {}, <<>>)
    /\ KeyIdle /\ FetcherIdle /\ ParserIdle /\ WorkersIdle /\ CacheIdle
    /\ \E poison \in [Units -> BOOLEAN] :
          sqs = [pc |-> "on",
                 msgs |-> [m \in Units |->
                             [state |-> "visible", receives |-> 0,
                              poison |-> poison[m]]]]

NextRedrive ==
    \/ SqsReceive
    \/ SqsInvokeReturn
    \/ SqsInvokeFail

\* the consumer keeps polling and every invocation ends
SpecRedrive == InitRedrive /\ [][NextRedrive]_vars /\ WF_vars(NextRedrive)

----------------------------------------------------------------------------
(* The three handlers side by side: the Fetcher's invocation, deliveries   *)
(* to the Processor, and the Notifier on the changes the Processor makes   *)

\* a delivery lambda_handler cannot walk: event has no 'Records' (line 39),
\* or a record has neither a body that parses nor a messageId (line 73);
\* the KeyError reaches the outer except clause
ProcInvokeBroken ==
    /\ pc = "idle"
    /\ invocations < MaxInvocations
    /\ invocations' = invocations + 1
    /\ event' = <<>>
    /\ msgIdx' = 0
    /\ fires' = <<>>
    /\ total_processed' = 0
    /\ total_stored' = 0
    /\ errors' = <<>>
    /\ last' = NoLast
    /\ result' = [NoResult EXCEPT !.statusCode = StatusError]
    /\ pc' = "idle"
    /\ UNCHANGED <<now, chunk, table, stream, passClean, snap, NotifierVars, AuxVars>>

\* either the schedule has started the Fetcher, or the queue is about to
\* deliver a chunk to the Processor
InitHandlers ==
    /\ \E c \in {<<FA>>, <<FD, FA>>} : InitCore(c, {}, <<>>)
    /\ KeyIdle /\ ParserIdle /\ WorkersIdle /\ CacheIdle /\ SqsIdle
    /\ fetcher \in {FetcherReady, [pc |-> "off"]}

\* the handlers share no state but the change feed, which the Processor
\* writes and the Notifier reads: the Fetcher's invocation is followed on
\* its own, the Processor's deliveries together with the Notifier's
NextHandlers ==
    \/ FetchInvoke
    \/ FetchFeed
    \/ SendBatch
    \/ FetchReturn
    \/ FetcherIdle /\ ProcInvoke
    \/ FetcherIdle /\ ProcInvokeBroken
    \/ ProcMessage
    \/ ProcFire
    \/ ProcReturn
    \/ NotifierInvoke

SpecHandlers == InitHandlers /\ [][NextHandlers]_vars

----------------------------------------------------------------------------
(* Properties of the Processor *)

HasCoords(fire) == "latitude" \in DOMAIN fire /\ "longitude" \in DOMAIN fire

\* the detection has an acquisition date or an acquisition time
AcqKeyed(fire) ==
    DictGet(fire, "acq_date", Empty) # Empty \/ DictGet(fire, "acq_time", Empty) # Empty

AllCoords(c) == \A i \in DOMAIN c : HasCoords(c[i])
AllAcqKeyed(c) == \A i \in DOMAIN c : AcqKeyed(c[i])

Times == 0..MaxTime

WithId(tbl, id) == {r \in tbl : r.fire_id = id}

\* the invocation has returned
Returned == pc = "idle" /\ result # NoResult

\* the detections of the event, message after message
RECURSIVE DeliveredFires(_)
DeliveredFires(ev) ==
    IF ev = <<>> THEN <<>>
    ELSE (IF Head(ev).parses THEN DictGet(Head(ev).body, "fires", <<>>) ELSE <<>>)
         \o DeliveredFires(Tail(ev))

ErrorsOf(errs, kind) == {i \in DOMAIN errs : errs[i].error = kind}

\* C1: however often the chunk is delivered, no two records of the store
\* have the same fire_id, and once the chunk was processed without an
\* error, each of its detections with coordinates has exactly one record
\* under a fire_id derived from it.
C1_DedupInvariant ==
    /\ \A r1, r2 \in table : r1.fire_id = r2.fire_id => r1 = r2
    /\ snap.taken =>
         \A i \in DOMAIN chunk :
            HasCoords(chunk[i]) =>
               \E t \in Times : Cardinality(WithId(table, FireId(chunk[i], t))) = 1

\* C1 witness: a second invocation went over the chunk again, found its last
\* detection already stored, and returned without an error.
C1_Witness ==
    /\ Returned /\ invocations = 2 /\ snap.taken
    /\ result.statusCode = StatusOk
    /\ last.what = "duplicate"

\* C2 as claimed: for every chunk of detections with coordinates, after the
\* first pass over the chunk without an error the store never changes again.
C2_IdempotentAnyChunk ==
    (snap.taken /\ AllCoords(chunk)) => table = snap.table

\* C2 amended: for every chunk of detections with coordinates and an
\* acquisition date or time, after the first pass over the chunk without an
\* error the store never changes again, whenever the later deliveries happen.
C2_IdempotentAcqKeyed ==
    (snap.taken /\ AllCoords(chunk) /\ AllAcqKeyed(chunk)) => table = snap.table

\* C2 witness: such a chunk was redelivered in a later second than the one
\* its record was written in, and the write was skipped as a duplicate.
C2_Witness ==
    /\ snap.taken /\ AllCoords(chunk) /\ AllAcqKeyed(chunk)
    /\ invocations = 2
    /\ last.what = "duplicate"
    /\ \E r \in table : r.fire_id = last.item.fire_id /\ r.timestamp < last.item.timestamp

\* C3 as claimed: a detection whose conditional create finds its fire_id
\* present adds no error entry and is not counted in stored.
C3_DuplicateNotCounted ==
    [][(pc = "records" /\ fires # <<>> /\ fires' # fires /\ last'.what = "duplicate")
         => (errors' = errors /\ total_stored' = total_stored)]_vars

\* C5: a record of the store stays the one record of its fire_id, with every
\* field as first written, through every later step.
C5_CreateOnly ==
    [][\A r \in table : WithId(table', r.fire_id) = {r}]_vars

\* C5 witness: a later write attempt for a stored fire_id carried other
\* values (measurement, location or ingest time) and was skipped.
C5_Witness ==
    /\ last.what = "duplicate"
    /\ \E r \in table :
          /\ r.fire_id = last.item.fire_id
          /\ r.frp # last.item.frp
          /\ r.location_country # last.item.location_country

\* C6: the change feed holds at most one INSERT per fire_id, and exactly one
\* per record of the store.
C6_OneInsertPerFireId ==
    /\ \A i, j \in DOMAIN stream :
          stream[i].image.fire_id = stream[j].image.fire_id => i = j
    /\ \A i \in DOMAIN stream : stream[i].eventName = "INSERT"
    /\ Len(stream) = Cardinality(table)

\* C6 witness: a redelivery in a second invocation met a stored fire_id; the
\* feed still holds the one INSERT of that fire_id.
C6_Witness ==
    /\ invocations = 2
    /\ last.what = "duplicate"
    /\ Cardinality({i \in DOMAIN stream :
                      stream[i].image.fire_id = last.item.fire_id}) = 1

\* C7: when every detection of a delivery has coordinates and the only
\* failures are k store errors, the result reports stored = N - k,
\* errors = k and k error details.
C7_PartialSuccess ==
    LET n == Len(DeliveredFires(event))
        k == Cardinality(ErrorsOf(errors, "store_error"))
    IN  (Returned /\ AllCoords(DeliveredFires(event)) /\ k = Len(errors)
           /\ k <= ErrorDetailCap)
        => /\ result.stored = n - k
           /\ result.errors = k
           /\ Len(result.error_details) = k

\* C7 witness: a first delivery of four detections with new fire_ids, one of
\* which failed in the store.
C7_Witness ==
    /\ Returned /\ invocations = 1
    /\ AllCoords(DeliveredFires(event))
    /\ Len(DeliveredFires(event)) = 4
    /\ Len(errors) = 1 /\ errors[1].error = "store_error"
    /\ result.stored = 3 /\ Cardinality(table) = 3

\* C8: when an invocation returns, every detection of every message that
\* parsed was handled (counted as processed or as an error), and each one
\* with coordinates has its record in the store or its entry in the errors.
C8_SiblingsNotAborted ==
    Returned =>
      LET fs == DeliveredFires(event)
      IN  /\ total_processed + Cardinality({i \in DOMAIN errors :
                                              "fire" \in DOMAIN errors[i]})
               = Len(fs)
          /\ \A i \in DOMAIN fs :
                HasCoords(fs[i]) =>
                   \/ \E t \in Times : WithId(table, FireId(fs[i], t)) # {}
                   \/ \E j \in DOMAIN errors :
                         "fire" \in DOMAIN errors[j] /\ errors[j].fire = fs[i]

\* C8 witness: the first detection failed in the store and a later one of
\* the same delivery was stored.
C8_Witness ==
    /\ Returned
    /\ Len(errors) = 1 /\ errors[1].error = "store_error"
    /\ DeliveredFires(event)[1] = errors[1].fire
    /\ total_processed = Len(DeliveredFires(event)) - 1
    /\ last.what = "stored"

C24_MissingCoordinates ==
    [][(pc = "records" /\ fires # <<>> /\ fires' = Tail(fires)
          /\ ~HasCoords(Head(fires)))
       => /\ last'.what = "skipped" /\ last'.resp = "none"
          /\ table' = table /\ stream' = stream
          /\ total_processed' = total_processed + 1
          /\ total_stored' = total_stored
          /\ errors' = errors
          /\ Summary(total_processed', total_stored', errors').statusCode
                = Summary(total_processed, total_stored, errors).statusCode]_vars

\* C24 witness: a delivery of a detection without longitude and one with
\* coordinates has returned: two processed, one stored, no error.
C24_Witness ==
    /\ Returned /\ invocations = 1
    /\ event = <<MsgChunk(<<FD, FA>>)>>
    /\ result.statusCode = StatusOk
    /\ result.processed = 2 /\ result.stored = 1 /\ result.errors = 0
    /\ Cardinality(table) = 1

\* the entries of the error list for detections, and those for messages
FireErrors(errs) == SelectSeq(errs, LAMBDA e : "fire" \in DOMAIN e)
RecordErrors(errs) == SelectSeq(errs, LAMBDA e : "record" \in DOMAIN e)

\* C27: when an invocation returns, processed plus the number of
\* per-detection errors is the number of detections of the messages that
\* parsed, stored is at most processed, and every message whose body does
\* not parse has one error entry of its own and adds to no counter, the
\* messages after it being processed all the same.
C27_Accounting ==
    Returned =>
       /\ result.processed + Len(FireErrors(errors)) = Len(DeliveredFires(event))
       /\ result.stored <= result.processed
       /\ Len(RecordErrors(errors))
             = Len(SelectSeq(event, LAMBDA record : ~record.parses))
       /\ result.errors = Len(FireErrors(errors)) + Len(RecordErrors(errors))

\* C27 witness: a message that does not parse came before a chunk of two
\* detections, one of which failed; the result counts one processed and
\* two errors.
C27_Witness ==
    /\ Returned
    /\ Len(event) = 2 /\ ~event[1].parses /\ event[2].parses
    /\ Len(DeliveredFires(event)) = 2
    /\ result.processed = 1 /\ result.errors = 2
    /\ Len(FireErrors(errors)) = 1 /\ Len(RecordErrors(errors)) = 1


----------------------------------------------------------------------------
(* Properties of the Notifier *)

\* C4: when the publish fails, the invocation itself fails: the exception
\* leaves the handler.
C4_PublishFailureFatal ==
    nresult.publishFailed => nresult.raised

\* the INSERT records of a delivery
Inserts(records) == SelectSeq(records, LAMBDA rec : rec.eventName = "INSERT")

\* a delivery was handled
Delivered == nresult.records # <<>>

\* C15: a delivery without an INSERT record makes no publish call, and a
\* delivery with at least one INSERT record makes exactly one.
C15_PublishOncePerDelivery ==
    Delivered =>
       /\ nresult.publish_calls = IF Inserts(nresult.records) = <<>> THEN 0 ELSE 1
       /\ Len(nresult.sent) <= nresult.publish_calls

\* C15 witness: a delivery of MODIFY and REMOVE records only was handled,
\* with no publish call.
C15_Witness ==
    /\ Delivered
    /\ Len(nresult.records) >= 2
    /\ \E i, j \in DOMAIN nresult.records :
          nresult.records[i].eventName = "MODIFY" /\ nresult.records[j].eventName = "REMOVE"
    /\ Inserts(nresult.records) = <<>>
    /\ nresult.publish_calls = 0

\* the lines of the country's group in a message: from the line that names
\* the country up to the next blank line
GroupOf(message, country) ==
    LET hdr == CHOOSE i \in DOMAIN message :
                  message[i].kind = "country" /\ message[i].country = country
        end == CHOOSE j \in DOMAIN message :
                  /\ j > hdr /\ message[j].kind = "blank"
                  /\ \A l \in (hdr + 1)..(j - 1) : message[l].kind # "blank"
    IN  SubSeq(message, hdr, end - 1)

OfKind(lines, kind) == SelectSeq(lines, LAMBDA line : line.kind = kind)

\* C14: the alert of a delivery has one group per country of the INSERTed
\* records; a group details the first min(size, 5) of its fires, and has
\* the overflow line, with K = size - 5, exactly when its size exceeds 5.
C14_Aggregation ==
    \A n \in DOMAIN nresult.sent :
       LET message == nresult.sent[n].message
           images == [i \in DOMAIN Inserts(nresult.records) |->
                         Inserts(nresult.records)[i].image]
           countries == {images[i].location_country : i \in DOMAIN images}
           Size(c) == Cardinality({i \in DOMAIN images : images[i].location_country = c})
       IN  /\ Len(OfKind(message, "country")) = Cardinality(countries)
           /\ \A c \in countries :
                 /\ Len(SelectSeq(message, LAMBDA line :
                           line.kind = "country" /\ line.country = c)) = 1
                 /\ LET group == GroupOf(message, c)
                        details == OfKind(group, "fire")
                        more == OfKind(group, "more")
                        mine == SelectSeq(images, LAMBDA im : im.location_country = c)
                    IN  /\ group[1].count = Size(c)
                        /\ Len(details) = Min(Size(c), 5)
                        /\ \A d \in DOMAIN details :
                              details[d].latitude = mine[d].latitude
                        /\ Len(more) = IF Size(c) > 5 THEN 1 ELSE 0
                        /\ \A l \in DOMAIN more : more[l].count = Size(c) - 5

\* C14 witness: a delivery of 7 INSERTs, 5 in Mexico and 2 in the USA, was
\* published with two groups, the Mexico group with 5 details and no
\* overflow line.
C14_Witness ==
    /\ Len(nresult.sent) = 1
    /\ Len(nresult.records) = 7
    /\ Len(SelectSeq(nresult.records,
                     LAMBDA rec : rec.image.location_country = "Mexico")) = 5
    /\ Len(OfKind(nresult.sent[1].message, "country")) = 2
    /\ Len(OfKind(GroupOf(nresult.sent[1].message, "Mexico"), "fire")) = 5
    /\ OfKind(GroupOf(nresult.sent[1].message, "Mexico"), "more") = <<>>

KindCount(records, kind) ==
    Len(SelectSeq(records, LAMBDA rec : rec.eventName = kind))

\* C21: in a delivery that mixes INSERT, MODIFY and REMOVE records, the
\* alert published holds the INSERTed records and only them, in their
\* order; MODIFY and REMOVE records only raise their own counters, and the
\* result is an error only when the publish itself failed.
C21_MixedKinds ==
    Delivered =>
       LET ins == Inserts(nresult.records)
       IN  /\ nresult.statusCode = StatusError <=> nresult.publishFailed
           /\ nresult.publish_calls = IF ins = <<>> THEN 0 ELSE 1
           /\ ~nresult.publishFailed =>
                 /\ nresult.statusCode = StatusOk
                 /\ nresult.new_fires = Len(ins)
                 /\ nresult.updated_fires = KindCount(nresult.records, "MODIFY")
                 /\ nresult.removed_fires = KindCount(nresult.records, "REMOVE")
                 /\ Len(nresult.sent) = IF ins = <<>> THEN 0 ELSE 1
                 /\ \A n \in DOMAIN nresult.sent :
                       /\ nresult.sent[n].fire_count = Len(ins)
                       /\ nresult.sent[n].fire_ids =
                             [i \in DOMAIN ins |-> ins[i].image.fire_id]

\* C21 witness: a delivery of an INSERT, a MODIFY and a REMOVE record was
\* handled, and the alert published holds the one INSERTed record.
C21_Witness ==
    /\ Delivered
    /\ KindCount(nresult.records, "INSERT") = 1
    /\ KindCount(nresult.records, "MODIFY") = 1
    /\ KindCount(nresult.records, "REMOVE") = 1
    /\ Len(nresult.sent) = 1
    /\ nresult.sent[1].fire_count = 1
    /\ nresult.updated_fires = 1 /\ nresult.removed_fires = 1


\* C22: the country groups of an alert are in ascending order of country
\* name whatever the order of arrival, and the fires detailed in a group
\* are the first (at most 5) of the country in the order of their arrival.
C22_AlertOrdering ==
    \A n \in DOMAIN nresult.sent :
       LET message == nresult.sent[n].message
           heads == OfKind(message, "country")
           images == [i \in DOMAIN Inserts(nresult.records) |->
                         Inserts(nresult.records)[i].image]
       IN  /\ \A i, j \in DOMAIN heads :
                 i < j => SeqLess(Spelling[heads[i].country], Spelling[heads[j].country])
           /\ \A h \in DOMAIN heads :
                 LET mine == SelectSeq(images, LAMBDA im :
                                  im.location_country = heads[h].country)
                     details == OfKind(GroupOf(message, heads[h].country), "fire")
                 IN  details = [d \in 1..Min(Len(mine), 5) |->
                                  [kind |-> "fire", city |-> mine[d].location_city,
                                   state |-> mine[d].location_state,
                                   latitude |-> mine[d].latitude,
                                   longitude |-> mine[d].longitude]]

\* C22 witness: the fires of the USA arrived before the second of seven
\* fires in Mexico, and the alert has the Mexico group first.
C22_Witness ==
    /\ Len(nresult.sent) = 1
    /\ Len(nresult.records) >= 8
    /\ nresult.records[1].image.location_country = "Mexico"
    /\ nresult.records[2].image.location_country = "USA"
    /\ KindCount(SelectSeq(nresult.records,
                           LAMBDA rec : rec.image.location_country = "Mexico"),
                 "INSERT") = 7
    /\ OfKind(nresult.sent[1].message, "country")[1].country = "Mexico"
    /\ OfKind(nresult.sent[1].message, "country")[2].country = "USA"

\* the countries among the INSERTed records of a delivery
CountriesIn(records) ==
    {Inserts(records)[i].image.location_country : i \in DOMAIN Inserts(records)}

\* C23: the notification of a delivery carries the number of INSERT records
\* in its subject and in its fire_count attribute, that number is the sum of
\* the sizes of its country groups, and its countries attribute lists every
\* country of the INSERTed records once.
C23_PublishContent ==
    /\ Len(nresult.sent) <= 1
    /\ \A n \in DOMAIN nresult.sent :
          LET note == nresult.sent[n]
              heads == OfKind(note.message, "country")
              total == Len(Inserts(nresult.records))
              Sum[k \in 0..Len(heads)] ==
                 IF k = 0 THEN 0 ELSE Sum[k - 1] + heads[k].count
          IN  /\ note.subject_count = total
              /\ note.fire_count = total
              /\ OfKind(note.message, "total")[1].count = total
              /\ Sum[Len(heads)] = total
              /\ {note.countries[i] : i \in DOMAIN note.countries}
                    = CountriesIn(nresult.records)
              /\ \A i, j \in DOMAIN note.countries :
                    i # j => note.countries[i] # note.countries[j]

\* C23 witness: an alert for fires in two countries, several in each, was
\* published.
C23_Witness ==
    /\ Len(nresult.sent) = 1
    /\ Len(nresult.sent[1].countries) = 2
    /\ nresult.sent[1].fire_count >= 4
    /\ \A c \in CountriesIn(nresult.records) :
          KindCount(SelectSeq(nresult.records,
                              LAMBDA rec : rec.image.location_country = c),
                    "INSERT") >= 2


----------------------------------------------------------------------------
(* Properties of the derivation of fire_id *)

\* the acquisition-time key of a detection
AcqKey(fire) ==
    fire.latitude \o <<"_">> \o fire.longitude \o <<"_">>
    \o DictGet(fire, "acq_date", Empty) \o <<"_">> \o DictGet(fire, "acq_time", Empty)

\* the ingest-time key of a detection derived at second t
IngestKey(fire, t) ==
    fire.latitude \o <<"_">> \o fire.longitude \o <<"_">> \o IntStr(t)

\* C11 as stated: two derivations from the same detection, whatever the
\* seconds they are made at, give the same fire_id.
C11_SameInputSameKey ==
    \A i, j \in DOMAIN derived :
       derived[i].fire = derived[j].fire => derived[i].fire_id = derived[j].fire_id

\* C11: two derivations from the same detection give the same fire_id,
\* whatever the seconds they are made at, when the detection has a non-empty
\* acquisition date or a non-empty acquisition time.
C11_SameInputSameKeyAcq ==
    \A i, j \in DOMAIN derived :
       (derived[i].fire = derived[j].fire /\ AcqKeyed(derived[i].fire))
          => derived[i].fire_id = derived[j].fire_id

\* C11 witness: the same acquisition-keyed detection was derived at two
\* different seconds.
C11_Witness ==
    \E i, j \in DOMAIN derived :
       /\ derived[i].fire = derived[j].fire
       /\ AcqKeyed(derived[i].fire)
       /\ derived[i].at # derived[j].at

\* C18: the fire_id is the acquisition-time key exactly when the detection
\* has both a non-empty acquisition date and a non-empty acquisition time;
\* if either is absent or empty it is the ingest-time key.
C18_PolicySelection ==
    \A i \in DOMAIN derived :
       LET fire == derived[i].fire
           both == /\ DictGet(fire, "acq_date", Empty) # Empty
                   /\ DictGet(fire, "acq_time", Empty) # Empty
       IN  derived[i].fire_id = IF both THEN AcqKey(fire)
                                ELSE IngestKey(fire, derived[i].at)


\* both the acquisition date and the acquisition time are there
BothAcq(fire) ==
    /\ DictGet(fire, "acq_date", Empty) # Empty
    /\ DictGet(fire, "acq_time", Empty) # Empty

\* the four values the acquisition-time key is made of
KeyFields(fire) ==
    <<fire.latitude, fire.longitude, fire.acq_date, fire.acq_time>>

\* C28 as stated: two detections with non-empty acquisition date and time
\* that differ in latitude, longitude, acquisition date or acquisition time
\* derive different fire_ids.
C28_NoFalseDedup ==
    \A i, j \in DOMAIN derived :
       (/\ BothAcq(derived[i].fire) /\ BothAcq(derived[j].fire)
        /\ KeyFields(derived[i].fire) # KeyFields(derived[j].fire))
          => derived[i].fire_id # derived[j].fire_id

\* none of the four values holds the joining character
NoJoiner(fire) ==
    \A f \in 1..4 : \A k \in DOMAIN KeyFields(fire)[f] : KeyFields(fire)[f][k] # "_"

\* two such detections whose four values are free of "_" derive different
\* fire_ids
NoFalseDedupPlain ==
    \A i, j \in DOMAIN derived :
       (/\ BothAcq(derived[i].fire) /\ BothAcq(derived[j].fire)
        /\ NoJoiner(derived[i].fire) /\ NoJoiner(derived[j].fire)
        /\ KeyFields(derived[i].fire) # KeyFields(derived[j].fire))
          => derived[i].fire_id # derived[j].fire_id

\* two different detections free of "_" were derived
PlainPair ==
    \E i, j \in DOMAIN derived :
       /\ BothAcq(derived[i].fire) /\ BothAcq(derived[j].fire)
       /\ NoJoiner(derived[i].fire) /\ NoJoiner(derived[j].fire)
       /\ KeyFields(derived[i].fire) # KeyFields(derived[j].fire)

----------------------------------------------------------------------------
(* Properties of the parser *)

Parsed == parser.pc = "done"

ColumnSet(cols) == {cols[i] : i \in 1..Len(cols)}

\* the numbers the cells of the model's rows stand for
NumberOf(text) ==
    CASE text = <<"1", ".", "5", "0">> -> [mant |-> 15, exp |-> 1]
      [] text = <<"7">> -> [mant |-> 7, exp |-> 0]
      [] text = <<"-", "2">> -> [mant |-> 0 - 2, exp |-> 0]
      [] text = <<"3">> -> [mant |-> 3, exp |-> 0]
      [] text = <<"4">> -> [mant |-> 4, exp |-> 0]

\* the row is as long as the header and its numeric cells are numbers
WellFormed(row) ==
    /\ row.shape # "short"
    /\ \A k \in NumericColumns : row.cells[k] # NotANumber

\* the detection a row of a feed with every column stands for
DetectionOf(row) ==
    [k \in ColumnSet(Columns) |->
        IF k \in NumericColumns THEN NumberOf(row.cells[k]) ELSE row.cells[k]]

\* the detection made from the feed's cells where the feed has the column
SameOnColumns(fire, row, cols) ==
    \A k \in ColumnSet(cols) : fire[k] = DetectionOf(row)[k]

\* C13: of a feed whose header names the four numeric columns, the parser
\* yields the well-formed rows and only them, in input order, each with the
\* values of its cells; a row with an unparsable latitude, longitude,
\* brightness or frp is skipped and the rows after it are still yielded.
C13_RowSkip ==
    (Parsed /\ ~parser.feed.empty /\ NumericColumns \subseteq ColumnSet(parser.feed.cols))
    => LET well == SelectSeq(parser.feed.rows, WellFormed)
       IN  /\ Len(parser.fires) = Len(well)
           /\ \A i \in 1..Len(well) :
                 SameOnColumns(parser.fires[i], well[i], parser.feed.cols)

\* C13 witness: a feed of the full header whose second of three rows has the
\* latitude "abc" was parsed into the two other rows.
C13_Witness ==
    /\ Parsed /\ ~parser.feed.empty
    /\ parser.feed.cols = Columns
    /\ Len(parser.feed.rows) = 3
    /\ parser.feed.rows[1] = [cells |-> Row1, shape |-> "full"]
    /\ parser.feed.rows[2].cells.latitude = NotANumber
    /\ parser.feed.rows[3] = [cells |-> Row2, shape |-> "full"]
    /\ parser.fires = <<DetectionOf(parser.feed.rows[1]), DetectionOf(parser.feed.rows[3])>>

\* C20: when a column of the ten is absent from the header, or the row is
\* shorter than the header, the row is discarded: every detection yielded
\* comes from a feed whose header has the ten columns.
C20_AbsentColumnDiscards ==
    (Parsed /\ ~parser.feed.empty)
    => /\ ColumnSet(parser.feed.cols) # ColumnSet(Columns) => parser.fires = <<>>
       /\ Len(parser.fires) <= Len(SelectSeq(parser.feed.rows,
                                             LAMBDA row : row.shape # "short"))

----------------------------------------------------------------------------
(* Properties of the Fetcher *)

\* the dispatch is over and the invocation has returned
Dispatched == fetcher.pc = "done" /\ fetcher.fires # <<>>

CeilDiv(n, d) == (n + d - 1) \div d

RECURSIVE ConcatFires(_)
ConcatFires(as) ==
    IF as = <<>> THEN <<>> ELSE Head(as).message.fires \o ConcatFires(Tail(as))

RECURSIVE SentSize(_)
SentSize(as) ==
    IF as = <<>> THEN 0
    ELSE (IF Head(as).sent THEN Len(Head(as).message.fires) ELSE 0) + SentSize(Tail(as))

\* C12: N >= 1 detections are dispatched as ceil(N/10) chunks with the
\* ordinals 0, 1, ... in that order; every chunk but the last holds 10
\* detections, the last the remainder, and the chunks concatenated in
\* ordinal order are the input sequence.
C12_BatchPartitioning ==
    Dispatched =>
       LET N == Len(fetcher.fires)
           K == CeilDiv(N, 10)
           a == fetcher.attempts
       IN  /\ Len(a) = K
           /\ \A k \in 1..K :
                 /\ a[k].message.batch_id = <<"b", "a", "t", "c", "h", "_">> \o IntStr(k - 1)
                 /\ Len(a[k].message.fires) = IF k < K THEN 10 ELSE N - 10 * (K - 1)
                 /\ Len(a[k].message.fires) <= 10
           /\ ConcatFires(a) = fetcher.fires

\* C12 witness: 25 detections were dispatched in chunks of 10, 10 and 5.
C12_Witness ==
    /\ Dispatched
    /\ Len(fetcher.fires) = 25
    /\ [k \in 1..Len(fetcher.attempts) |-> Len(fetcher.attempts[k].message.fires)]
          = <<10, 10, 5>>
    /\ \A i, j \in 1..25 : i # j => fetcher.fires[i] # fetcher.fires[j]

\* C17: when the enqueue of a chunk fails, every later chunk is still
\* attempted, each chunk once; the queued count reported is the sum of the
\* sizes of the chunks whose enqueue succeeded, at most the number found,
\* and equal to it exactly when no enqueue failed.
C17_BestEffortDispatch ==
    Dispatched =>
       LET a == fetcher.attempts
           r == fetcher.result
       IN  /\ Len(a) = CeilDiv(Len(fetcher.fires), 10)
           /\ \A j, k \in 1..Len(a) :
                 j # k => a[j].message.batch_id # a[k].message.batch_id
           /\ r.fires_queued = SentSize(a)
           /\ r.fires_found = Len(fetcher.fires)
           /\ r.fires_queued <= r.fires_found
           /\ (r.fires_queued = r.fires_found) <=> (\A k \in 1..Len(a) : a[k].sent)
           /\ fetcher.queue = [k \in 1..Len(SelectSeq(a, LAMBDA x : x.sent)) |->
                                 SelectSeq(a, LAMBDA x : x.sent)[k].message]

\* C17 witness: the enqueue of the first of three chunks failed, the two
\* later chunks were enqueued, and 15 of 25 detections are reported queued.
C17_Witness ==
    /\ Dispatched
    /\ Len(fetcher.attempts) = 3
    /\ ~fetcher.attempts[1].sent
    /\ fetcher.attempts[2].sent /\ fetcher.attempts[3].sent
    /\ fetcher.result.fires_queued = 15

NoData(resp) ==
    \/ resp.kind = "ok" /\ resp.body \in {<<>>, Body(FeedOf(0))}
    \/ resp.kind = "http" /\ resp.code = NotFound

TransportError(resp) ==
    \/ resp.kind = "http" /\ resp.code # NotFound
    \/ resp.kind \in {"timeout", "refused"}

Fetched == fetcher.pc = "done" /\ fetcher.resp.kind # "none"

----------------------------------------------------------------------------
(* Properties of two workers *)

\* the worker's put reached the table and came back without an error
Wrote(w) == workers[w].pc = "done" /\ workers[w].what \in {"stored", "duplicate"}

\* C19: when the two workers have both written detections of the same
\* fire_id, exactly one of them created the record and the other one saw a
\* duplicate without an error; the table holds one record of that fire_id,
\* the one of the worker that created it.
C19_ConcurrentWriters ==
    /\ \A r1, r2 \in table : r1.fire_id = r2.fire_id => r1 = r2
    /\ (/\ workers # <<>>
        /\ Wrote(1) /\ Wrote(2)
        /\ workers[1].item.fire_id = workers[2].item.fire_id)
       => \E win, lose \in WorkerIds :
             /\ win # lose
             /\ workers[win].what = "stored"
             /\ workers[lose].what = "duplicate"
             /\ WithId(table, workers[win].item.fire_id) = {workers[win].item}

\* C19 witness: both workers wrote the same fire_id with different values,
\* and the second worker's write came first.
C19_Witness ==
    /\ workers # <<>>
    /\ Wrote(1) /\ Wrote(2)
    /\ workers[1].item.fire_id = workers[2].item.fire_id
    /\ workers[1].item # workers[2].item
    /\ workers[2].what = "stored"

----------------------------------------------------------------------------
(* Properties of the credential cache *)

\* the lookups of the worker that asked the secret store
Fetches == SelectSeq(cache.lookups, LAMBDA l : l.fetched)

----------------------------------------------------------------------------
(* Properties of the work queue *)

QueueOn == sqs.pc = "on"

\* no message is handed to the Processor more than 3 times, and only a
\* message received 3 times is in the dead-letter queue
RedriveBound ==
    QueueOn =>
       \A m \in Units :
          /\ sqs.msgs[m].receives <= 3
          /\ sqs.msgs[m].state = "dlq" => sqs.msgs[m].receives = 3

\* a failed invocation gives back all the messages of its batch, and a
\* message in the dead-letter queue stays there
RedriveStep ==
    QueueOn =>
       \A m \in Units :
          /\ (sqs.msgs[m].state = "inflight" /\ sqs'.msgs[m].state = "visible")
             => \A k \in Units :
                   sqs.msgs[k].state = "inflight" => sqs'.msgs[k].state = "visible"
          /\ sqs.msgs[m].state = "dlq" => sqs'.msgs[m] = sqs.msgs[m]

\* C26: the messages of a failed invocation are all delivered again; a
\* message is delivered at most 3 times, after its 3rd failed receive it is
\* moved to the dead-letter queue and never delivered again, and every
\* message whose invocations all fail ends in the dead-letter queue.
C26_BoundedRedrive ==
    /\ []RedriveBound
    /\ [][RedriveStep]_vars
    /\ \A m \in Units :
          (QueueOn /\ sqs.msgs[m].poison) ~> (sqs.msgs[m].state = "dlq")

\* C26 witness: a message whose invocations all failed is in the
\* dead-letter queue after 3 receives, next to a message that was processed
\* and deleted.
C26_Witness ==
    /\ QueueOn
    /\ \E m, k \in Units :
          /\ sqs.msgs[m].poison /\ sqs.msgs[m].state = "dlq"
          /\ sqs.msgs[m].receives = 3
          /\ sqs.msgs[k].state = "deleted"

----------------------------------------------------------------------------
(* Properties of the three handlers *)

FetcherReturned == fetcher.pc = "done"
ProcessorReturned == pc = "idle" /\ invocations > 0
NotifierReturned == nresult # NoNResult

\* C29: whatever the event and whatever fails around it, each handler
\* returns a result and lets no error out: the Fetcher with status 200, 400
\* or 500, the Processor with 200, 207 or 500, the Notifier with 200 or 500;
\* an invocation that has started always has its next step.
C29_HandlersReturn ==
    /\ fetcher.pc # "off" => ~fetcher.raised
    /\ FetcherReturned => fetcher.result.statusCode \in {200, 400, 500}
    /\ fetcher.pc \in {"ready", "fetch", "send"} =>
          ENABLED (FetchInvoke \/ FetchFeed \/ SendBatch \/ FetchReturn)
    /\ ProcessorReturned => result.statusCode \in {200, 207, 500}
    /\ pc = "records" => ENABLED (ProcMessage \/ ProcFire \/ ProcReturn)
    /\ ~nresult.raised
    /\ NotifierReturned => nresult.statusCode \in {200, 500}

\* C29 witness: the Processor has returned status 500 on a delivery it
\* cannot walk, after an invocation that stored a detection, and the
\* Notifier has returned status 500 after a failed publish.
C29_Witness ==
    /\ ProcessorReturned /\ result.statusCode = 500
    /\ table # {}
    /\ NotifierReturned /\ nresult.statusCode = 500 /\ nresult.publishFailed

\* the Fetcher has returned status 500 after a failed fetch
FetcherFailed ==
    /\ FetcherReturned /\ fetcher.result.statusCode = 500
    /\ TransportError(fetcher.resp)

====
